---- MODULE Spec2Model ----
(***************************************************************************)
(* A model of jclem/config: the source collector (readValue, readFile,     *)
(* readEnv), the synchronous and asynchronous finalize operations, the     *)
(* environment resolver readInEnv and the deepMerge function.               *)
(*                                                                         *)
(* Strings that the program inspects character by character (schema keys   *)
(* and environment-variable names) are sequences of one-character strings. *)
(* JavaScript values are tagged records [t |-> type, v |-> payload]; a     *)
(* Record<string, unknown> is a function from keys to tagged values.       *)
(***************************************************************************)
EXTENDS Integers, Sequences, FiniteSets, TLC

\* ------------------------------------------------------------------------
\* JavaScript values

Str(s) == [t |-> "string", v |-> s]
Num(n) == [t |-> "number", v |-> n]
Arr(s) == [t |-> "array", v |-> s]
Rec(f) == [t |-> "record", v |-> f]
Null == [t |-> "null", v |-> "null"]

\* The record literal {}.
EmptyRecord == <<>>

\* isRecord: typeof value === 'object' && value != null && !Array.isArray.
\* A key that is absent reads as undefined, which is not a record.
isRecord(value) == value.t = "record"

\* ------------------------------------------------------------------------
\* deepMerge

RECURSIVE deepMerge(_)

\* A replacement step that concatenates two arrays instead of replacing.
MergeKeyConcat(output, object, key) ==
    IF key \in DOMAIN output /\ isRecord(output[key]) /\ isRecord(object[key])
    THEN Rec(deepMerge(<<output[key].v, object[key].v>>))
    ELSE IF key \in DOMAIN output /\ output[key].t = "array" /\ object[key].t = "array"
         THEN Arr(output[key].v \o object[key].v)
         ELSE object[key]

\* The body of the for-in loop of the reduce callback: the new output[key].
MergeKey(output, object, key) ==
    IF key \in DOMAIN output /\ isRecord(output[key]) /\ isRecord(object[key])
    THEN Rec(deepMerge(<<output[key].v, object[key].v>>))
    ELSE object[key]

\* The reduce callback: every key of object is assigned in output, the other
\* keys of output are left as they are.
MergeStep(output, object) ==
    [key \in DOMAIN output \cup DOMAIN object |->
        IF key \in DOMAIN object THEN MergeKey(output, object, key)
                                 ELSE output[key]]

\* A reduce that walks the inputs from the right (reduceRight).
RECURSIVE deepMergeRight(_)
deepMergeRight(objects) ==
    IF Len(objects) = 0 THEN EmptyRecord
    ELSE MergeStep(deepMergeRight(Tail(objects)), Head(objects))

\* objects.reduce(callback, {}).
deepMerge(objects) ==
    IF Len(objects) = 0 THEN EmptyRecord
    ELSE MergeStep(deepMerge(SubSeq(objects, 1, Len(objects) - 1)),
                   objects[Len(objects)])

\* ------------------------------------------------------------------------
\* Strings as character sequences

Lower == <<"a","b","c","d","e","f","g","h","i","j","k","l","m",
           "n","o","p","q","r","s","t","u","v","w","x","y","z">>
Upper == <<"A","B","C","D","E","F","G","H","I","J","K","L","M",
           "N","O","P","Q","R","S","T","U","V","W","X","Y","Z">>

\* One character of String.prototype.toUpperCase.
upperChar(c) ==
    IF \E i \in 1..Len(Lower) : Lower[i] = c
    THEN Upper[CHOOSE i \in 1..Len(Lower) : Lower[i] = c]
    ELSE c

\* An upper-casing that also starts a new word, with an underscore, at every
\* capital letter.
RECURSIVE toUpperCaseSnake(_)
toUpperCaseSnake(p) ==
    IF Len(p) = 0 THEN <<>>
    ELSE (IF \E i \in 1..Len(Upper) : Upper[i] = Head(p)
          THEN <<"_", Head(p)>> ELSE <<upperChar(Head(p))>>)
         \o toUpperCaseSnake(Tail(p))

\* p.toUpperCase()
toUpperCase(p) == [i \in 1..Len(p) |-> upperChar(p[i])]

\* Array.prototype.join
RECURSIVE join(_, _)
join(parts, sep) ==
    IF Len(parts) = 0 THEN <<>>
    ELSE IF Len(parts) = 1 THEN parts[1]
    ELSE parts[1] \o sep \o join(Tail(parts), sep)

\* Schema keys used by the tests and the README.
foo == <<"f","o","o">>
bar == <<"b","a","r">>
baz == <<"b","a","z">>
fooBar == <<"f","o","o","B","a","r">>
foobar == <<"f","o","o","b","a","r">>
foo_bar == <<"f","o","o","_","b","a","r">>
object == <<"o","b","j","e","c","t">>
a == <<"a">>
b == <<"b">>
c == <<"c">>
database == <<"d","a","t","a","b","a","s","e">>
poolSize == <<"p","o","o","l","S","i","z","e">>
string == <<"s","t","r","i","n","g">>
number == <<"n","u","m","b","e","r">>

\* ------------------------------------------------------------------------
\* Schemas: an object node has a shape, a leaf node has none.

ZObject(shape) == [shape |-> shape]
ZString == [type |-> "string", optional |-> FALSE]
ZNumber == [type |-> "number", optional |-> FALSE]
ZOptional(node) == [type |-> node.type, optional |-> TRUE]

\* Reflect.has(value, 'shape')
isZodObject(value) == "shape" \in DOMAIN value

\* ------------------------------------------------------------------------
\* readInEnv

\* process.env[name] of an unset variable.
undefined == [t |-> "undefined", v |-> "undefined"]

\* The separator of the derived variable name.
EnvSeparator == <<"_">>

\* A name derivation that joins the segments with a double underscore.
readEnvValueDouble(path, environment) ==
    LET envVarName == join([i \in 1..Len(path) |-> toUpperCase(path[i])],
                           <<"_", "_">>)
    IN  IF envVarName \in DOMAIN environment
        THEN Str(environment[envVarName]) ELSE undefined

\* readEnvValue: the variable of a path, or undefined.
readEnvValue(path, environment) ==
    LET envVarName == join([i \in 1..Len(path) |-> toUpperCase(path[i])],
                           EnvSeparator)
    IN  IF envVarName \in DOMAIN environment
        THEN Str(environment[envVarName]) ELSE undefined

\* path.reduce(...): writes value at path, creating the records on the way.
RECURSIVE writePath(_, _, _, _)
writePath(input, path, index, value) ==
    LET key == path[index]
        keys == DOMAIN input \cup {key}
    IN  IF index = Len(path)
        THEN [k \in keys |-> IF k = key THEN value ELSE input[k]]
        ELSE LET child == IF key \in DOMAIN input /\ input[key] # Null
                          THEN input[key] ELSE Rec(EmptyRecord)
             IN  [k \in keys |->
                    IF k = key THEN Rec(writePath(child.v, path, index + 1, value))
                    ELSE input[k]]

\* A resolver that writes a null placeholder for an unset variable.
writeLeafPlaceholder(input, path, value) ==
    IF value # undefined THEN writePath(input, path, 1, value)
    ELSE writePath(input, path, 1, Null)

\* The leaf branch of readEnv: write only when the variable is set.
writeLeaf(input, path, value) ==
    IF value # undefined THEN writePath(input, path, 1, value) ELSE input

\* The closure readEnv(path, schema), threading the record it fills.  The
\* keys of a shape are visited one after the other; the writes go to distinct
\* paths, so the order in which the set is walked does not show.
RECURSIVE readEnv(_, _, _, _)
RECURSIVE readEnvKeys(_, _, _, _, _)
readEnvKeys(input, path, shape, keys, environment) ==
    IF keys = {} THEN input
    ELSE LET key == CHOOSE k \in keys : TRUE
         IN  readEnvKeys(readEnv(input, Append(path, key), shape[key], environment),
                         path, shape, keys \ {key}, environment)

readEnv(input, path, schema_, environment) ==
    IF isZodObject(schema_)
    THEN readEnvKeys(input, path, schema_.shape, DOMAIN schema_.shape, environment)
    ELSE writeLeaf(input, path, readEnvValue(path, environment))

\* readInEnv: {} unless readFromEnv, else the record read from the environment.
readInEnv(enabled, schema_, environment) ==
    IF ~enabled THEN EmptyRecord
    ELSE readEnv(EmptyRecord, <<>>, schema_, environment)

\* ------------------------------------------------------------------------
\* The validator (zod), as far as the finalize operations use it

Ok(value) == [ok |-> TRUE, value |-> value]
Throw(error) == [ok |-> FALSE, error |-> error]

ZodError(issues) == [name |-> "ZodError", issues |-> issues]
Issue(path) == [path |-> path, code |-> "invalid_type"]

\* The issues of one node: a required node that is absent or of another type
\* is an invalid_type issue at its path; value is undefined for an absent key.
RECURSIVE issuesOf(_, _, _)
issuesOf(node, value, path) ==
    IF isZodObject(node)
    THEN IF ~isRecord(value) THEN {Issue(path)}
         ELSE UNION {issuesOf(node.shape[key],
                              IF key \in DOMAIN value.v THEN value.v[key] ELSE undefined,
                              Append(path, key)) : key \in DOMAIN node.shape}
    ELSE IF value = undefined THEN (IF node.optional THEN {} ELSE {Issue(path)})
         ELSE IF value.t = node.type THEN {} ELSE {Issue(path)}

\* The parsed output: the keys of the schema, unknown keys stripped.
RECURSIVE outputOf(_, _)
outputOf(node, value) ==
    IF isZodObject(node)
    THEN Rec([key \in DOMAIN node.shape \cap DOMAIN value.v |->
                outputOf(node.shape[key], value.v[key])])
    ELSE value

\* schema.safeParse(input): {success: true, data} or {success: false, error}.
schemaSafeParse(schema_, input_) ==
    LET issues == issuesOf(schema_, Rec(input_), <<>>)
    IN  IF issues = {} THEN [success |-> TRUE, data |-> outputOf(schema_, Rec(input_)).v]
        ELSE [success |-> FALSE, error |-> ZodError(issues)]

\* schema.parse(input): the data, or the ZodError thrown.
schemaParse(schema_, input_) ==
    LET result == schemaSafeParse(schema_, input_)
    IN  IF result.success THEN Ok(result.data) ELSE Throw(result.error)

\* ------------------------------------------------------------------------
\* Files

NoFile == [syntax |-> "none", value |-> Null]
FileData(syntax, value) == [syntax |-> syntax, value |-> value]

\* A FileEntry [path, parse]; readFile(p) of a bare path stores [p, parseFile].
FileEntry(path, parse) == [path |-> path, parse |-> parse]

\* readFileSync / the err of readFile's callback.
readFileSync(path, fs_) ==
    IF fs_[path] = NoFile THEN Throw([name |-> "ENOENT", path |-> path])
    ELSE Ok(fs_[path])

\* z.object({}).passthrough().parse(value): the value when it is a record.
passthroughParse(value) ==
    IF isRecord(value) THEN Ok(value) ELSE Throw(ZodError({Issue(<<>>)}))

\* JSON.parse(data.toString())
JSONparse(data) ==
    IF data.syntax = "json" THEN Ok(data.value)
    ELSE Throw([name |-> "SyntaxError", path |-> "JSON.parse"])

\* A custom parser as in the test 'accepts a custom parser' (js-yaml load);
\* JSON text is YAML text too.
yamlLoad(data) ==
    IF data.syntax \in {"json", "yaml"} THEN Ok(data.value)
    ELSE Throw([name |-> "YAMLException", path |-> "load"])

\* Config.parseFile
parseFile(data) ==
    LET parsed == JSONparse(data)
    IN  IF parsed.ok THEN passthroughParse(parsed.value) ELSE parsed

\* entry[1](data)
applyParse(parse, data) ==
    IF parse = "parseFile" THEN parseFile(data) ELSE yamlLoad(data)

\* z.object({}).passthrough().parse(entry[1](data))
decode(entry, data) ==
    LET parsed == applyParse(entry.parse, data)
    IN  IF parsed.ok THEN passthroughParse(parsed.value) ELSE parsed

\* One element of the map of readInFilesSync.
readAndDecodeSync(entry, fs_) ==
    LET read == readFileSync(entry.path, fs_)
    IN  IF read.ok THEN decode(entry, read.value) ELSE read

\* this.files.map(...) of readInFilesSync: the entries are read one after the
\* other and the first throw leaves the map; reads counts the files read.
RECURSIVE mapFilesSync(_, _, _, _)
mapFilesSync(entries, fs_, i, acc) ==
    IF i > Len(entries) THEN [ok |-> TRUE, value |-> acc, reads |-> Len(entries)]
    ELSE LET r == readAndDecodeSync(entries[i], fs_)
         IN  IF r.ok THEN mapFilesSync(entries, fs_, i + 1, Append(acc, r.value.v))
             ELSE [ok |-> FALSE, error |-> r.error, reads |-> i]

\* A readInFilesSync that leaves out the files it cannot read or decode and
\* merges the others.
readInFilesSyncLenient(entries, fs_) ==
    LET results == [i \in 1..Len(entries) |-> readAndDecodeSync(entries[i], fs_)]
        usable == SelectSeq(results, LAMBDA r : r.ok)
    IN  [ok |-> TRUE, value |-> deepMerge([i \in 1..Len(usable) |-> usable[i].value.v]),
         reads |-> Len(entries)]

\* readInFilesSync
readInFilesSync(entries, fs_) ==
    LET mapped == mapFilesSync(entries, fs_, 1, <<>>)
    IN  IF mapped.ok
        THEN [ok |-> TRUE, value |-> deepMerge(mapped.value), reads |-> mapped.reads]
        ELSE mapped

\* readInValues
readInValues(values_) == deepMerge(values_)

\* ------------------------------------------------------------------------
\* Bounds and the inputs of the model

\* The most sources (value records, files, the environment) one collector is given.
MaxSources == 3
\* The most arguments of one variadic readValue or readFile call.
MaxArgs == 2
\* The most environment variables set at a time.
MaxEnvVars == 2
\* The most records of one deepMerge call.
MaxObjects == 3

\* Environment-variable names, written out.
FOO_BAR == <<"F","O","O","_","B","A","R">>
FOO__BAR == <<"F","O","O","_","_","B","A","R">>
FOOBAR == <<"F","O","O","B","A","R">>
FOO_BAR_BAZ == <<"F","O","O","_","B","A","R","_","B","A","Z">>
DATABASE_POOLSIZE == <<"D","A","T","A","B","A","S","E","_","P","O","O","L","S","I","Z","E">>
DATABASE__POOL_SIZE == <<"D","A","T","A","B","A","S","E","_","_","P","O","O","L","_","S","I","Z","E">>
OBJECT_A == <<"O","B","J","E","C","T","_","A">>
OBJECT__A == <<"O","B","J","E","C","T","_","_","A">>
OBJECT_C == <<"O","B","J","E","C","T","_","C">>

EnvNames == {FOO_BAR, FOO__BAR, FOOBAR, FOO_BAR_BAZ, DATABASE_POOLSIZE,
             DATABASE__POOL_SIZE, OBJECT_A, OBJECT__A}
EnvValues == {"", "baz", "qux"}

\* The schemas of the tests and the README.
BasicConfig ==
    ZObject(string :> ZString @@ number :> ZNumber @@
            object :> ZObject(a :> ZOptional(ZString) @@ b :> ZOptional(ZString)
                              @@ c :> ZOptional(ZString)))
ConflictSchema == ZObject(foo_bar :> ZString @@ foo :> ZObject(bar :> ZString))
CamelSchema == ZObject(fooBar :> ZString @@ foobar :> ZString)
CamelSnakeSchema == ZObject(fooBar :> ZString @@ foo_bar :> ZString)
NestedSchema == ZObject(foo :> ZObject(bar :> ZObject(baz :> ZString)))
DatabaseSchema ==
    ZObject(foobar :> ZString @@ database :> ZObject(poolSize :> ZString))
ObjectSchema == ZObject(object :> ZObject(a :> ZOptional(ZString)))

EnvSchemas == {ConflictSchema, CamelSchema, CamelSnakeSchema, NestedSchema,
               DatabaseSchema, ObjectSchema}

\* The environment of the test 'merges value, file, environment'.
Environments ==
    {(OBJECT_A :> "a from env" @@ OBJECT_C :> "c from env")}

\* The fixture files and some files that cannot be read or decoded.
FileSystem ==
    ( "config1.json" :> FileData("json",
          Rec(string :> Str("string") @@ number :> Num(1) @@
              object :> Rec(a :> Str("a") @@ b :> Str("b"))))
   @@ "config2.json" :> FileData("json",
          Rec(number :> Num(2) @@ object :> Rec(c :> Str("c"))))
   @@ "array.yml" :> FileData("yaml", Arr(<<Num(1)>>))
   @@ "malformed.json" :> FileData("garbage", Null)
   @@ "missing.json" :> NoFile )

FileArgs ==
    {FileEntry("config1.json", "parseFile"), FileEntry("config2.json", "parseFile"),
     FileEntry("array.yml", "yaml"),
     FileEntry("malformed.json", "parseFile"), FileEntry("missing.json", "parseFile")}

ValueArgs ==
    {(string :> Str("string from value") @@ number :> Num(0 - 1)
        @@ object :> Rec(a :> Str("a from value"))),
     (string :> Num(1) @@ object :> Str("object from value"))}

\* Sequences of length 1..n over a set.
SeqsUpTo(S, n) == UNION {[1..k -> S] : k \in 1..n}

\* ------------------------------------------------------------------------
\* State

VARIABLES
    schema,         \* Config.schema
    env,            \* process.env: the variables that are set
    fs,             \* the file system: path -> content
    values,         \* Config.values
    files,          \* Config.files
    readFromEnv,    \* Config.readFromEnv
    calls,          \* the sources in the order in which they were registered
    ret,            \* what the most recent call returned or threw
    last,           \* the most recent synchronous finalize: what it read and built
    async,          \* the asynchronous finalize in flight, or the last one
    crashed,        \* the process ended on an exception thrown out of a callback
    objects,        \* the arguments of a deepMerge call under way
    output,         \* the accumulator of its reduce
    index,          \* how many of its arguments are merged
    heap,           \* the objects deepMerge works on by reference: address -> object
    before          \* what the finalize before the latest change of env or fs returned

collector == <<values, files, readFromEnv, calls>>
world == <<schema, env, fs>>
reduce == <<objects, output, index, heap>>
vars == <<schema, env, fs, values, files, readFromEnv, calls, ret, last, async,
          crashed, objects, output, index, heap, before>>

NoRet == [kind |-> "none", value |-> <<>>]
This == [kind |-> "this", value |-> <<>>]
Returned(data) == [kind |-> "returned", value |-> data]
Result(result) == [kind |-> "result", value |-> result]
Thrown(error) == [kind |-> "thrown", value |-> error]
PromiseRet == [kind |-> "promise", value |-> <<>>]

NoPromise == [state |-> "none", value |-> <<>>]
Pending == [state |-> "pending", value |-> <<>>]
Fulfilled(value) == [state |-> "fulfilled", value |-> value]
Rejected(error) == [state |-> "rejected", value |-> error]

NoCall == [method |-> "none", reads |-> 0, args |-> <<>>, input |-> <<>>,
           validated |-> FALSE]
NoAsync == [method |-> "none", valuesIn |-> EmptyRecord, files |-> <<>>,
            slots |-> <<>>, order |-> <<>>, promise |-> NoPromise,
            args |-> <<>>, input |-> <<>>, validated |-> FALSE]

ValueSource(record) == [kind |-> "value", source |-> record]
FileSource(entry) == [kind |-> "file", source |-> entry]
EnvSource == [kind |-> "env", source |-> <<>>]

\* ------------------------------------------------------------------------
\* getInput / getInputAsync

\* A merge of the three tiers in the order in which their first source was
\* registered.
mergeTiersInCallOrder(valuesIn, filesIn, envIn) ==
    LET pos(kind) == IF \E i \in 1..Len(calls) : calls[i].kind = kind
                     THEN CHOOSE i \in 1..Len(calls) :
                            /\ calls[i].kind = kind
                            /\ \A j \in 1..(i - 1) : calls[j].kind # kind
                     ELSE 0
        tier(kind) == IF kind = "value" THEN valuesIn
                      ELSE IF kind = "file" THEN filesIn ELSE envIn
        kinds == {"value", "file", "env"}
        order == CHOOSE p \in [1..3 -> kinds] :
                    /\ {p[1], p[2], p[3]} = kinds
                    /\ pos(p[1]) <= pos(p[2]) /\ pos(p[2]) <= pos(p[3])
    IN  deepMerge(<<tier(order[1]), tier(order[2]), tier(order[3])>>)

\* deepMerge(this.readInValues(), <files>, this.readInEnv())
mergeTiers(valuesIn, filesIn, envIn) == deepMerge(<<valuesIn, filesIn, envIn>>)

\* A getInput that merges the value records, the file records and the
\* environment record as one flat list.
getInputFlat ==
    LET valuesIn == readInValues(values)
        mapped == mapFilesSync(files, fs, 1, <<>>)
    IN  IF mapped.ok
        THEN LET envIn == readInEnv(readFromEnv, schema, env)
             IN  [ok |-> TRUE, value |-> deepMerge(values \o mapped.value \o <<envIn>>),
                  args |-> <<valuesIn, deepMerge(mapped.value), envIn>>,
                  reads |-> mapped.reads]
        ELSE [ok |-> FALSE, error |-> mapped.error, args |-> <<valuesIn>>,
              reads |-> mapped.reads]

\* getInput: the arguments are evaluated left to right, so a throw of
\* readInFilesSync leaves before readInEnv and before the merge.
getInput ==
    LET valuesIn == readInValues(values)
        filesIn == readInFilesSync(files, fs)
    IN  IF filesIn.ok
        THEN LET envIn == readInEnv(readFromEnv, schema, env)
             IN  [ok |-> TRUE, value |-> mergeTiers(valuesIn, filesIn.value, envIn),
                  args |-> <<valuesIn, filesIn.value, envIn>>, reads |-> filesIn.reads]
        ELSE [ok |-> FALSE, error |-> filesIn.error, args |-> <<valuesIn>>,
              reads |-> filesIn.reads]

\* ------------------------------------------------------------------------
\* The builder calls

\* last and async describe the finalize that has just returned or settled: the
\* next call on the collector, or the next change of the environment, drops
\* the description of a finalize that is over.
inFlight(A) == \E i \in 1..Len(A.slots) : A.slots[i].state = "waiting"

\* The caller of parseAsync or safeParseAsync awaits the promise: it makes its
\* next call on the collector once the promise has settled.
awaiting == async.promise.state = "pending"
keepInFlight(A) == IF inFlight(A) THEN A ELSE NoAsync

readValue(records) ==
    /\ ~crashed
    /\ ~awaiting
    /\ Len(calls) + Len(records) <= MaxSources
    /\ values' = values \o records
    /\ calls' = calls \o [i \in 1..Len(records) |-> ValueSource(records[i])]
    /\ ret' = This
    /\ last' = NoCall
    /\ async' = keepInFlight(async)
    /\ UNCHANGED <<world, files, readFromEnv, crashed, reduce, before>>

readFile(entries) ==
    /\ ~crashed
    /\ ~awaiting
    /\ Len(calls) + Len(entries) <= MaxSources
    /\ files' = files \o entries
    /\ calls' = calls \o [i \in 1..Len(entries) |-> FileSource(entries[i])]
    /\ ret' = This
    /\ last' = NoCall
    /\ async' = keepInFlight(async)
    /\ UNCHANGED <<world, values, readFromEnv, crashed, reduce, before>>

\* A readEnv that reads the environment when it is called and keeps the
\* record it read among the values.
readEnvCallEager ==
    /\ ~crashed
    /\ ~awaiting
    /\ readFromEnv \/ Len(calls) < MaxSources
    /\ values' = Append(values, readInEnv(TRUE, schema, env))
    /\ calls' = IF readFromEnv THEN calls ELSE Append(calls, EnvSource)
    /\ UNCHANGED readFromEnv
    /\ ret' = This
    /\ last' = NoCall
    /\ async' = keepInFlight(async)
    /\ UNCHANGED <<world, files, crashed, reduce, before>>

readEnvCall ==
    /\ ~crashed
    /\ ~awaiting
    /\ readFromEnv \/ Len(calls) < MaxSources
    /\ readFromEnv' = TRUE
    /\ calls' = IF readFromEnv THEN calls ELSE Append(calls, EnvSource)
    /\ ret' = This
    /\ last' = NoCall
    /\ async' = keepInFlight(async)
    /\ UNCHANGED <<world, values, files, crashed, reduce, before>>

\* ------------------------------------------------------------------------
\* Synchronous finalize

\* A safeParse that throws the validator's error as parse does.
safeParseOutcomeThrowing(got) ==
    IF got.ok
    THEN LET result == schemaSafeParse(schema, got.value)
         IN  IF result.success THEN Result(result) ELSE Thrown(result.error)
    ELSE Thrown(got.error)

\* safeParse: the validator's result object, or the throw of getInput.
safeParseOutcome(got) ==
    IF got.ok THEN Result(schemaSafeParse(schema, got.value))
    ELSE Thrown(got.error)

\* parse: the validated data, or the throw of getInput or of the validator.
parseOutcome(got) ==
    IF got.ok
    THEN LET parsed == schemaParse(schema, got.value)
         IN  IF parsed.ok THEN Returned(parsed.value) ELSE Thrown(parsed.error)
    ELSE Thrown(got.error)

lastOf(method, got) ==
    [method |-> method, reads |-> got.reads, args |-> got.args,
     input |-> IF got.ok THEN <<got.value>> ELSE <<>>, validated |-> got.ok]

parse ==
    /\ ~crashed
    /\ ~awaiting
    /\ ret' = parseOutcome(getInput)
    /\ last' = lastOf("parse", getInput)
    /\ async' = keepInFlight(async)
    /\ UNCHANGED <<world, collector, crashed, reduce, before>>

safeParse ==
    /\ ~crashed
    /\ ~awaiting
    /\ ret' = safeParseOutcome(getInput)
    /\ last' = lastOf("safeParse", getInput)
    /\ async' = keepInFlight(async)
    /\ UNCHANGED <<world, collector, crashed, reduce, before>>

\* ------------------------------------------------------------------------
\* Asynchronous finalize

Waiting == [state |-> "waiting", value |-> <<>>]
Threw(error) == [state |-> "threw", value |-> error]

\* The array of results taken in the order in which the reads completed.
PromiseAllValuesByCompletion(slots, order) ==
    [k \in 1..Len(order) |-> slots[order[k]].value]

\* The array Promise.all resolves with: the results by position.
PromiseAllValues(slots, order) ==
    [i \in 1..Len(slots) |-> slots[i].value]

\* The callback of readFile: err ? reject(err) : resolve(<decode>(data)).
\* The argument of resolve is evaluated inside the callback, after the
\* executor has returned: a throw of the decode step leaves the callback as an
\* uncaught exception and the promise of that file is never settled.
callbackSlot(entry, fs_) ==
    LET read == readFileSync(entry.path, fs_)
    IN  IF ~read.ok THEN Rejected(read.error)
        ELSE LET decoded == decode(entry, read.value)
             IN  IF decoded.ok THEN Fulfilled(decoded.value.v)
                 ELSE Threw(decoded.error)

\* A safeParseAsync that rejects with the validator's error as parseAsync does.
asyncOutcomeRejecting(method, input_) ==
    LET parsed == schemaParse(schema, input_)
    IN  IF parsed.ok
        THEN (IF method = "parseAsync" THEN Fulfilled(parsed.value)
              ELSE Fulfilled(schemaSafeParse(schema, input_)))
        ELSE Rejected(parsed.error)

\* parseAsync resolves with the data or rejects with the validator's error;
\* safeParseAsync resolves with the validator's result object.
asyncOutcome(method, input_) ==
    IF method = "parseAsync"
    THEN LET parsed == schemaParse(schema, input_)
         IN  IF parsed.ok THEN Fulfilled(parsed.value) ELSE Rejected(parsed.error)
    ELSE Fulfilled(schemaSafeParse(schema, input_))

\* The rest of getInputAsync and of the finalize once readInFiles has resolved:
\* the files are merged, the environment is read, the tiers are merged and the
\* result is validated.
resume(A) ==
    LET filesIn == deepMerge(PromiseAllValues(A.slots, A.order))
        envIn == readInEnv(readFromEnv, schema, env)
        input_ == mergeTiers(A.valuesIn, filesIn, envIn)
    IN  [A EXCEPT !.promise = asyncOutcome(A.method, input_),
                  !.args = <<A.valuesIn, filesIn, envIn>>,
                  !.input = <<input_>>,
                  !.validated = TRUE]

\* Promise.all after the callback of file i: the first rejection rejects, the
\* last fulfilment resolves; once settled nothing changes.
settle(A, i) ==
    IF A.promise.state # "pending" THEN A
    ELSE IF A.slots[i].state = "rejected" THEN [A EXCEPT !.promise = Rejected(A.slots[i].value)]
    ELSE IF \A j \in 1..Len(A.slots) : A.slots[j].state = "fulfilled" THEN resume(A)
    ELSE A

\* The call of parseAsync or safeParseAsync up to its first suspension: the
\* values are merged and one read per file is started.  One asynchronous
\* finalize is in flight at a time.
startAsync(method) ==
    /\ ~crashed
    /\ ~awaiting
    /\ ~inFlight(async)
    /\ LET A == [method |-> method, valuesIn |-> readInValues(values),
                 files |-> files, slots |-> [i \in 1..Len(files) |-> Waiting],
                 order |-> <<>>, promise |-> Pending, args |-> <<>>,
                 input |-> <<>>, validated |-> FALSE]
       IN  async' = IF Len(files) = 0 THEN resume(A) ELSE A
    /\ ret' = PromiseRet
    /\ last' = NoCall
    /\ UNCHANGED <<world, collector, crashed, reduce, before>>

parseAsync == startAsync("parseAsync")

safeParseAsync == startAsync("safeParseAsync")

\* The callback of the read of file i, with the promise reactions it triggers.
\* An uncaught exception ends the process unless the host handles it.
fileCallback(i) ==
    /\ ~crashed
    /\ i \in 1..Len(async.slots)
    /\ async.slots[i].state = "waiting"
    /\ LET slot == callbackSlot(async.files[i], fs)
           A == [async EXCEPT !.slots[i] = slot, !.order = Append(@, i)]
       IN  /\ async' = settle(A, i)
           /\ IF slot.state = "threw" THEN crashed' \in BOOLEAN
              ELSE UNCHANGED crashed
    /\ UNCHANGED <<world, collector, ret, last, reduce, before>>

\* ------------------------------------------------------------------------
\* The environment of the process and the reduce of deepMerge

\* A change of env or fs made after a finalize has returned or thrown: the
\* caller still holds what that finalize gave.
isOutcome(r) == r.kind \in {"returned", "result", "thrown"}
remember == isOutcome(ret) /\ before' = ret

\* process.env[name] = value, as the tests do before they build a collector.
setenv(name, value) ==
    /\ ~crashed
    /\ ~awaiting
    /\ name \in DOMAIN env \/ Cardinality(DOMAIN env) < MaxEnvVars
    /\ env' = [n \in DOMAIN env \cup {name} |-> IF n = name THEN value ELSE env[n]]
    /\ last' = NoCall
    /\ async' = keepInFlight(async)
    /\ UNCHANGED <<schema, fs, collector, ret, crashed, reduce>>

\* The content of a file is replaced, or the file is removed, between two
\* calls on the collector.
writeFile(path, data) ==
    /\ ~crashed
    /\ ~awaiting
    /\ fs[path] # data
    /\ fs' = [fs EXCEPT ![path] = data]
    /\ last' = NoCall
    /\ async' = keepInFlight(async)
    /\ UNCHANGED <<schema, env, collector, ret, crashed, reduce>>

\* One call of the reduce callback of deepMerge(...objects).
reduceStep ==
    /\ index < Len(objects)
    /\ output' = MergeStep(output, objects[index + 1])
    /\ index' = index + 1
    /\ UNCHANGED <<world, collector, ret, last, async, crashed, objects, heap, before>>

\* ------------------------------------------------------------------------
\* deepMerge by reference: records are objects of a heap, a value that is a
\* record is a reference to one, and output[key] = ... writes the object the
\* accumulator refers to.

Ref(addr) == [t |-> "ref", v |-> addr]

\* isRecord of a value held in the heap.
isRecordRef(value) == value.t = "ref"

\* output[key] = value
assign(h, addr, key, value) == [h EXCEPT ![addr] = (key :> value) @@ @]

RECURSIVE deepMergeRef(_, _)
RECURSIVE reduceRef(_, _, _, _)
RECURSIVE forInRef(_, _, _, _)

\* for (const key in object) { ... } of the reduce callback.
forInRef(h, out, object_, keys) ==
    IF keys = {} THEN h
    ELSE LET key == CHOOSE k \in keys : TRUE
             outputValue == IF key \in DOMAIN h[out] THEN h[out][key] ELSE undefined
             objectValue == h[object_][key]
             merged == deepMergeRef(h, <<outputValue.v, objectValue.v>>)
         IN  IF isRecordRef(outputValue) /\ isRecordRef(objectValue)
             THEN forInRef(assign(merged.heap, out, key, Ref(merged.ref)),
                           out, object_, keys \ {key})
             ELSE forInRef(assign(h, out, key, objectValue), out, object_, keys \ {key})

\* The reduce from its i-th argument on, accumulating into the object at out.
reduceRef(h, out, refs, i) ==
    IF i > Len(refs) THEN [heap |-> h, ref |-> out]
    ELSE reduceRef(forInRef(h, out, refs[i], DOMAIN h[refs[i]]), out, refs, i + 1)

\* A reduce without its initial value: the first argument is the accumulator.
deepMergeRefNoSeed(h, refs) == reduceRef(h, refs[1], refs, 2)

\* objects.reduce(callback, {}): the accumulator is a new object.
deepMergeRef(h, refs) ==
    LET seeded == Append(h, EmptyRecord)
    IN  reduceRef(seeded, Len(seeded), refs, 1)

\* The records of the callers, by address: 1, 3, 4 and 6 are records handed
\* to readValue or decoded from a file, 2 and 5 are nested in 1 and 4.
InputHeap ==
    << (a :> Ref(2) @@ b :> Str("b")),
       (a :> Num(1)),
       (a :> Num(1)),
       (a :> Ref(5)),
       (b :> Num(1)),
       (a :> Arr(<<Num(3)>>)) >>
Roots == {1, 3, 4, 6}

\* The most objects the deepMerge calls of one run may have allocated when a
\* further call begins.
MaxAllocations == 4

noCallUnderWay == index = Len(objects)

\* A deepMerge call begins: its accumulator is allocated.
enter(refs) ==
    /\ noCallUnderWay
    /\ Len(heap) < Len(InputHeap) + MaxAllocations
    /\ heap' = Append(heap, EmptyRecord)
    /\ output' = Len(heap) + 1
    /\ objects' = refs
    /\ index' = 0
    /\ UNCHANGED <<world, collector, ret, last, async, crashed, before>>

\* readInValues: deepMerge(...this.values), the registered records by reference.
readInValuesRef == enter(values)

\* getInput: deepMerge(this.readInValues(), <files>, <env>), once readInValues
\* has returned its result.
getInputRef(filesIn, envIn) ==
    /\ output # 0
    /\ objects = values
    /\ enter(<<output, filesIn, envIn>>)

\* One call of the reduce callback, on the heap.
reduceStepRef ==
    /\ index < Len(objects)
    /\ heap' = forInRef(heap, output, objects[index + 1], DOMAIN heap[objects[index + 1]])
    /\ index' = index + 1
    /\ UNCHANGED <<world, collector, ret, last, async, crashed, objects, output, before>>

\* ------------------------------------------------------------------------
\* Specifications

InitCollector ==
    /\ values = <<>> /\ files = <<>> /\ readFromEnv = FALSE /\ calls = <<>>
    /\ ret = NoRet /\ last = NoCall /\ async = NoAsync
    /\ crashed = FALSE
    /\ before = NoRet

\* A collector for BasicConfig over the fixture files.
Init ==
    /\ schema = BasicConfig
    /\ env \in Environments
    /\ fs = FileSystem
    /\ InitCollector
    /\ objects = <<>> /\ output = EmptyRecord /\ index = 0 /\ heap = <<>>

Next ==
    \/ \E records \in SeqsUpTo(ValueArgs, MaxArgs) : readValue(records)
    \/ \E entries \in SeqsUpTo(FileArgs, MaxArgs) : readFile(entries)
    \/ readEnvCall
    \/ parse
    \/ safeParse
    \/ parseAsync
    \/ safeParseAsync
    \/ \E i \in 1..MaxSources : fileCallback(i)

Spec == Init /\ [][Next]_vars

\* A collector that reads only the environment, for each schema of the tests.
InitEnv ==
    /\ schema \in EnvSchemas
    /\ env = EmptyRecord
    /\ fs = FileSystem
    /\ InitCollector
    /\ objects = <<>> /\ output = EmptyRecord /\ index = 0 /\ heap = <<>>

NextEnv ==
    \/ \E name \in EnvNames, value \in EnvValues :
          setenv(name, value) /\ UNCHANGED before
    \/ readEnvCall
    \/ parse
    \/ safeParse

SpecEnv == InitEnv /\ [][NextEnv]_vars

\* The records deepMerge is applied to: key a holds a scalar, an array or a
\* nested record, key b holds a scalar.
InnerRecords ==
    {EmptyRecord, (a :> Num(1)), (a :> Arr(<<Num(3)>>)), (b :> Num(1))}
OuterValues ==
    {Num(1), Arr(<<Num(1), Num(2)>>), Arr(<<Num(3)>>)} \cup {Rec(r) : r \in InnerRecords}
MergeInputs ==
    LET overA == UNION {[keys -> OuterValues] : keys \in SUBSET {a}}
    IN  overA \cup {r @@ (b :> Str("b")) : r \in overA}

InitMerge ==
    /\ schema = BasicConfig
    /\ env = EmptyRecord
    /\ fs = FileSystem
    /\ InitCollector
    /\ objects \in {<<>>} \cup SeqsUpTo(MergeInputs, MaxObjects)
    /\ output = EmptyRecord
    /\ index = 0
    /\ heap = <<>>

NextMerge == reduceStep

SpecMerge == InitMerge /\ [][NextMerge]_vars

\* Files whose content decodes to a record, a scalar, null or an array, read
\* with the default decoder (.json) or with a custom one (.yml).
ShapeFiles ==
    ( "record.json" :> FileData("json", Rec(string :> Str("string") @@ number :> Num(1)))
   @@ "scalar.json" :> FileData("json", Num(1))
   @@ "null.json" :> FileData("json", Null)
   @@ "array.json" :> FileData("json", Arr(<<Rec(string :> Str("s"))>>))
   @@ "record.yml" :> FileData("yaml", Rec(number :> Num(2)))
   @@ "scalar.yml" :> FileData("yaml", Str("string"))
   @@ "array.yml" :> FileData("yaml", Arr(<<Num(1)>>)) )

ShapeFileArgs ==
    {FileEntry("record.json", "parseFile"), FileEntry("scalar.json", "parseFile"),
     FileEntry("null.json", "parseFile"), FileEntry("array.json", "parseFile"),
     FileEntry("record.yml", "yaml"), FileEntry("scalar.yml", "yaml"),
     FileEntry("array.yml", "yaml")}

\* A collector that reads only files, of every shape.
InitShape ==
    /\ schema = BasicConfig
    /\ env = EmptyRecord
    /\ fs = ShapeFiles
    /\ InitCollector
    /\ objects = <<>> /\ output = EmptyRecord /\ index = 0 /\ heap = <<>>

NextShape ==
    \/ \E entries \in SeqsUpTo(ShapeFileArgs, MaxArgs) : readFile(entries)
    \/ parse
    \/ safeParse
    \/ parseAsync
    \/ safeParseAsync
    \/ \E i \in 1..MaxSources : fileCallback(i)

SpecShape == InitShape /\ [][NextShape]_vars

\* Files that hold a record, a scalar or an array at the key object, which the
\* value records hold too.
TierFiles ==
    ( "config2.json" :> FileSystem["config2.json"]
   @@ "flat.json" :> FileData("json", Rec(object :> Str("off")))
   @@ "list.json" :> FileData("json", Rec(object :> Arr(<<Str("a")>>))) )

TierFileArgs ==
    {FileEntry("config2.json", "parseFile"), FileEntry("flat.json", "parseFile"),
     FileEntry("list.json", "parseFile")}

InitTiers ==
    /\ schema = BasicConfig
    /\ env \in Environments
    /\ fs = TierFiles
    /\ InitCollector
    /\ objects = <<>> /\ output = EmptyRecord /\ index = 0 /\ heap = <<>>

NextTiers ==
    \/ \E records \in SeqsUpTo(ValueArgs, MaxArgs) : readValue(records)
    \/ \E entries \in SeqsUpTo(TierFileArgs, MaxArgs) : readFile(entries)
    \/ readEnvCall
    \/ parse
    \/ safeParse
    \/ parseAsync
    \/ safeParseAsync
    \/ \E i \in 1..MaxSources : fileCallback(i)

SpecTiers == InitTiers /\ [][NextTiers]_vars

\* A collector whose value records are records of the heap.
InitHeap ==
    /\ schema = BasicConfig
    /\ env = EmptyRecord
    /\ fs = FileSystem
    /\ values \in SeqsUpTo(Roots, MaxObjects)
    /\ files = <<>> /\ readFromEnv = FALSE /\ calls = <<>>
    /\ ret = NoRet /\ last = NoCall /\ async = NoAsync
    /\ crashed = FALSE
    /\ before = NoRet
    /\ objects = <<>> /\ output = 0 /\ index = 0
    /\ heap = InputHeap

NextHeap ==
    \/ readInValuesRef
    \/ \E filesIn \in Roots, envIn \in Roots : getInputRef(filesIn, envIn)
    \/ reduceStepRef

SpecHeap == InitHeap /\ [][NextHeap]_vars

\* A collector over one value record, config1.json and the environment, while
\* OBJECT_A is set anew and config1.json is rewritten or removed.
FreshValueArgs == {(object :> Rec(a :> Str("a from value") @@ b :> Str("b from value")))}
FreshFileArgs == {FileEntry("config1.json", "parseFile")}
FreshContents ==
    {FileData("json", Rec(string :> Str("changed") @@ number :> Num(3))), NoFile}
FreshEnvValues == {"qux"}

InitFresh ==
    /\ schema = BasicConfig
    /\ env \in Environments
    /\ fs = FileSystem
    /\ InitCollector
    /\ objects = <<>> /\ output = EmptyRecord /\ index = 0 /\ heap = <<>>

NextFresh ==
    \/ \E records \in SeqsUpTo(FreshValueArgs, MaxArgs) : readValue(records)
    \/ \E entries \in SeqsUpTo(FreshFileArgs, MaxArgs) : readFile(entries)
    \/ readEnvCall
    \/ parse
    \/ safeParse
    \/ parseAsync
    \/ safeParseAsync
    \/ \E i \in 1..MaxSources : fileCallback(i)
    \/ \E value \in FreshEnvValues : setenv(OBJECT_A, value) /\ remember
    \/ \E data \in FreshContents : writeFile("config1.json", data) /\ remember

SpecFresh == InitFresh /\ [][NextFresh]_vars

\* ------------------------------------------------------------------------
\* Vocabulary of the properties

\* The value at a path of a value, undefined where the path leaves it.
RECURSIVE lookup(_, _)
lookup(value, path) ==
    IF path = <<>> THEN value
    ELSE IF isRecord(value) /\ Head(path) \in DOMAIN value.v
         THEN lookup(value.v[Head(path)], Tail(path))
         ELSE undefined

isLeafValue(value) == value # undefined /\ ~isRecord(value)

\* The leaf paths a schema declares.
RECURSIVE leafPaths(_, _)
leafPaths(node, path) ==
    IF isZodObject(node)
    THEN UNION {leafPaths(node.shape[k], Append(path, k)) : k \in DOMAIN node.shape}
    ELSE {path}

\* The paths at which a value ends: at a value that is not a record, or at a
\* record without keys.
RECURSIVE endPaths(_, _)
endPaths(value, path) ==
    IF isRecord(value) /\ DOMAIN value.v # {}
    THEN UNION {endPaths(value.v[k], Append(path, k)) : k \in DOMAIN value.v}
    ELSE {path}

\* The paths of BasicConfig.
ConfigPaths ==
    {<<string>>, <<number>>, <<object>>, <<object, a>>, <<object, b>>, <<object, c>>}

\* A tier decides path when it holds a value there or a leaf above it.
decides(tier, path) ==
    \/ lookup(Rec(tier), path) # undefined
    \/ \E n \in 1..Len(path) : isLeafValue(lookup(Rec(tier), SubSeq(path, 1, n)))

\* Values < Files < Env at every leaf path.
precedence(input_, args) ==
    \A path \in ConfigPaths :
        LET valueAt == lookup(Rec(args[1]), path)
            fileAt == lookup(Rec(args[2]), path)
            envAt == lookup(Rec(args[3]), path)
            inputAt == lookup(Rec(input_), path)
        IN  /\ isLeafValue(envAt) => inputAt = envAt
            /\ isLeafValue(fileAt) /\ ~decides(args[3], path) => inputAt = fileAt
            /\ isLeafValue(valueAt) /\ ~decides(args[2], path) /\ ~decides(args[3], path)
                   => inputAt = valueAt

\* The value records and the file entries of the collector in call order.
registered(kind) ==
    LET picked == {i \in 1..Len(calls) : calls[i].kind = kind}
        nth(k) == CHOOSE i \in picked : Cardinality({j \in picked : j < i}) = k - 1
    IN  [k \in 1..Cardinality(picked) |-> calls[nth(k)].source]

\* C1: whatever the order in which readValue, readFile and readEnv were
\* called, the tiers of a finalize are the merged value records, the merged
\* file records and the environment record, and in the merged input the
\* environment wins over the files and the files win over the values at every
\* path where they conflict.
C1_TierPrecedence ==
    /\ values = registered("value") /\ files = registered("file")
    /\ last.input # <<>> =>
          /\ last.args[1] = deepMerge(values)
          /\ precedence(last.input[1], last.args)
    /\ async.input # <<>> => precedence(async.input[1], async.args)

\* C1 witness: the environment was enabled first, then a file and a value
\* were registered, all three tiers hold object.a, and the environment's wins.
C1_Witness ==
    /\ Len(calls) = 3 /\ calls[1].kind = "env" /\ calls[2].kind = "file"
    /\ calls[3].kind = "value"
    /\ last.input # <<>>
    /\ lookup(Rec(last.args[1]), <<object, a>>) = Str("a from value")
    /\ lookup(Rec(last.args[2]), <<object, a>>) = Str("a")
    /\ lookup(Rec(last.input[1]), <<object, a>>) = Str("a from env")
    /\ lookup(Rec(last.input[1]), <<string>>) = Str("string")

\* C2: when an asynchronous finalize has merged its files, the file tier is
\* the one the synchronous readInFilesSync builds from the same entries, in
\* whatever order the reads completed.
C2_RegistrationOrder ==
    async.input # <<>> =>
        LET sync == readInFilesSync(async.files, fs)
        IN  /\ sync.ok
            /\ async.args[2] = sync.value
            /\ async.input[1] = deepMerge(<<async.valuesIn, sync.value,
                                            readInEnv(readFromEnv, schema, env)>>)

\* C2 witness: config1.json was registered before config2.json, its read
\* completed last, and number is the 2 of config2.json.
C2_Witness ==
    /\ async.input # <<>>
    /\ Len(async.files) = 2
    /\ async.files[1].path = "config1.json" /\ async.files[2].path = "config2.json"
    /\ async.order = <<2, 1>>
    /\ lookup(Rec(async.args[2]), <<number>>) = Num(2)
    /\ lookup(Rec(async.args[2]), <<object>>)
         = Rec(a :> Str("a") @@ b :> Str("b") @@ c :> Str("c"))

\* result is earlier with the keys of later merged in: a key of later where
\* both hold a record holds their merge, any other key of later holds later's
\* value, and the remaining keys hold earlier's.
RECURSIVE isMergeOf(_, _, _)
isMergeOf(result, earlier, later) ==
    /\ DOMAIN result = DOMAIN earlier \cup DOMAIN later
    /\ \A k \in DOMAIN result :
          IF k \notin DOMAIN later THEN result[k] = earlier[k]
          ELSE IF k \in DOMAIN earlier /\ earlier[k].t = "record" /\ later[k].t = "record"
               THEN /\ result[k].t = "record"
                    /\ isMergeOf(result[k].v, earlier[k].v, later[k].v)
               ELSE result[k] = later[k]

\* C3: every step of the reduce of deepMerge takes the next input, merges
\* recursively where the accumulated value and the input's value are both
\* records, lets the input's value replace the accumulated one everywhere
\* else (arrays included), and keeps the keys only the accumulator has.
C3_MergeStep ==
    [][reduceStep => isMergeOf(output', output, objects[index + 1])]_vars

\* C3 witness: merging [{a: [1,2]}, {a: [3]}] has yielded {a: [3]}.
C3_Witness ==
    /\ objects = <<(a :> Arr(<<Num(1), Num(2)>>)), (a :> Arr(<<Num(3)>>))>>
    /\ index = 2
    /\ output = (a :> Arr(<<Num(3)>>))

\* The variable of each leaf path under the single-underscore convention,
\* written out.
EnvTable ==
    {<<<<foo, bar, baz>>, FOO_BAR_BAZ>>, <<<<database, poolSize>>, DATABASE_POOLSIZE>>,
     <<<<object, a>>, OBJECT_A>>, <<<<foo, bar>>, FOO_BAR>>, <<<<foo_bar>>, FOO_BAR>>,
     <<<<fooBar>>, FOOBAR>>, <<<<foobar>>, FOOBAR>>}

tableName(path) == (CHOOSE e \in EnvTable : e[1] = path)[2]

\* A synchronous finalize has just read the environment.
envWasRead == last.method # "none" /\ Len(last.args) = 3 /\ readFromEnv

envRecord == Rec(last.args[3])

RevisedTable ==
    {<<<<foo, bar>>, FOO__BAR>>, <<<<object, a>>, OBJECT__A>>,
     <<<<database, poolSize>>, DATABASE__POOL_SIZE>>,
     <<<<fooBar>>, FOO_BAR>>, <<<<foo_bar>>, FOO_BAR>>, <<<<foobar>>, FOOBAR>>}

\* C5: segments are joined by a double underscore and a capital letter inside
\* a segment starts a new word: foo.bar is read from FOO__BAR, fooBar and
\* foo_bar from FOO_BAR, foobar from FOOBAR.
C5_DoubleUnderscoreNames ==
    envWasRead =>
        \A e \in RevisedTable :
            e[1] \in leafPaths(schema, <<>>) =>
                /\ e[2] \in DOMAIN env => lookup(envRecord, e[1]) = Str(env[e[2]])
                /\ e[2] \notin DOMAIN env => lookup(envRecord, e[1]) = undefined

C7_OnlySetLeaves ==
    last.method # "none" /\ Len(last.args) = 3 =>
        LET setPaths == {path \in leafPaths(schema, <<>>) : tableName(path) \in DOMAIN env}
        IN  IF readFromEnv /\ setPaths # {}
            THEN /\ endPaths(envRecord, <<>>) = setPaths
                 /\ \A path \in setPaths : lookup(envRecord, path).t = "string"
            ELSE last.args[3] = EmptyRecord

\* C7 witness: of the two leaves of the schema one variable is set, to the
\* empty string, and the variable of the nested one is unset: the record
\* holds the one string and no database key.
C7_Witness ==
    /\ envWasRead
    /\ schema = DatabaseSchema
    /\ DOMAIN env = {FOOBAR, DATABASE__POOL_SIZE} /\ env[FOOBAR] = ""
    /\ last.args[3] = (foobar :> Str(""))

\* The types BasicConfig expects, written out.
ExpectedType ==
    ( <<string>> :> "string" @@ <<number>> :> "number" @@ <<object>> :> "record"
   @@ <<object, a>> :> "string" @@ <<object, b>> :> "string"
   @@ <<object, c>> :> "string" )

\* The issues name violated paths: each is an invalid_type at a path of the
\* schema where the input holds a value of another type, and a number where
\* the schema wants the string `string` is reported at that path.
namesViolations(error, input_) ==
    /\ error.name = "ZodError"
    /\ error.issues # {}
    /\ \A issue \in error.issues :
          /\ issue.code = "invalid_type"
          /\ issue.path \in DOMAIN ExpectedType
          /\ lookup(Rec(input_), issue.path).t # ExpectedType[issue.path]
    /\ lookup(Rec(input_), <<string>>).t = "number" => Issue(<<string>>) \in error.issues

\* C8: when the merged input does not satisfy the schema, safeParse and
\* safeParseAsync hand back the validator's failure result (success false,
\* the error naming the violated path and its classification) and do not
\* throw or reject, while parse and parseAsync raise that error.
C8_ValidationFailure ==
    /\ last.input # <<>> =>
          LET verdict == schemaSafeParse(schema, last.input[1])
          IN  ~verdict.success =>
                /\ namesViolations(verdict.error, last.input[1])
                /\ last.method = "safeParse" =>
                      /\ ret.kind = "result"
                      /\ ret.value.success = FALSE
                      /\ ret.value.error = verdict.error
                /\ last.method = "parse" => ret = Thrown(verdict.error)
    /\ async.input # <<>> =>
          LET verdict == schemaSafeParse(schema, async.input[1])
          IN  ~verdict.success =>
                /\ async.method = "safeParseAsync" => async.promise = Fulfilled(verdict)
                /\ async.method = "parseAsync" => async.promise = Rejected(verdict.error)

\* C8 witness: safeParse has returned a failure whose error reports the
\* number given for `string`, as in the test 'parses safely with an error'.
C8_Witness ==
    /\ last.method = "safeParse"
    /\ last.input # <<>>
    /\ ret.kind = "result"
    /\ ret.value.success = FALSE
    /\ Issue(<<string>>) \in ret.value.error.issues

\* The files of a list that cannot be read or decoded.
badFiles(entries) == {i \in 1..Len(entries) : ~readAndDecodeSync(entries[i], fs).ok}

\* C9 as stated: safeParse never throws and the promise of safeParseAsync
\* never rejects, whatever the sources.
C9_NeverThrows ==
    /\ last.method = "safeParse" => ret.kind # "thrown"
    /\ async.method = "safeParseAsync" => async.promise.state # "rejected"

\* C9 amended: safeParse and safeParseAsync turn an invalid merged record into
\* a failure value and never throw or reject for it; a file that cannot be
\* read or decoded is not turned into a value: safeParse throws that file's
\* error, and the promise of safeParseAsync is not fulfilled and, when it
\* rejects, rejects with the read error of one of the files.
C9_ThrowsOnlyForFiles ==
    /\ last.method = "safeParse" =>
          IF badFiles(files) = {} THEN ret.kind = "result"
          ELSE /\ ret.kind = "thrown"
               /\ \E i \in badFiles(files) : ret.value = readAndDecodeSync(files[i], fs).error
    /\ async.method = "safeParseAsync" =>
          /\ async.promise.state = "fulfilled" =>
                /\ badFiles(async.files) = {}
                /\ async.promise.value.success \in BOOLEAN
          /\ async.promise.state = "rejected" =>
                \E i \in badFiles(async.files) :
                    /\ ~readFileSync(async.files[i].path, fs).ok
                    /\ async.promise.value = readFileSync(async.files[i].path, fs).error
          /\ badFiles(async.files) = {} /\ ~inFlight(async) =>
                async.promise.state = "fulfilled"

\* C9 witness: safeParse has thrown the error of a file that does not exist.
C9_Witness ==
    /\ last.method = "safeParse"
    /\ ret.kind = "thrown"
    /\ ret.value.name = "ENOENT"

\* C10: once every read of an asynchronous finalize has called back and one
\* of the files could not be read or decoded, the promise of the finalize is
\* rejected.
C10_FailureRejects ==
    /\ async.method # "none"
    /\ ~inFlight(async)
    /\ \E i \in 1..Len(async.slots) : async.slots[i].state \in {"rejected", "threw"}
    => async.promise.state = "rejected"

\* The fixture files a finalize cannot use, with the error each one raises,
\* written out: array.yml decodes to an array, malformed.json is not JSON,
\* missing.json does not exist.
FileError ==
    ( "array.yml" :> "ZodError" @@ "malformed.json" :> "SyntaxError"
   @@ "missing.json" :> "ENOENT" )

\* The position of the first registered file that cannot be used, 0 if none.
firstUnusable(entries) ==
    LET bad == {i \in 1..Len(entries) : entries[i].path \in DOMAIN FileError}
    IN  IF bad = {} THEN 0 ELSE CHOOSE i \in bad : \A j \in bad : i <= j

\* C11: a synchronous finalize reads the files in registration order and the
\* first file whose read or decode fails ends the call with that file's
\* error: no later file is read, neither the files nor the tiers are merged,
\* the environment is not read, the validator is not invoked and nothing
\* merged is handed back.  A finalize that hands back data has read every
\* file and the data is the validated merged record.
C11_FirstFailureAborts ==
    last.method # "none" =>
        LET first == firstUnusable(files)
        IN  /\ first # 0 =>
                  /\ last.reads = first
                  /\ last.args = <<deepMerge(values)>>
                  /\ last.input = <<>>
                  /\ ~last.validated
                  /\ ret.kind = "thrown"
                  /\ ret.value.name = FileError[files[first].path]
            /\ first = 0 =>
                  /\ last.reads = Len(files)
                  /\ Len(last.args) = 3
                  /\ last.validated
                  /\ last.input = <<deepMerge(last.args)>>
            /\ ret.kind = "returned" =>
                  /\ first = 0
                  /\ schemaSafeParse(schema, last.input[1]).success
                  /\ ret.value = schemaSafeParse(schema, last.input[1]).data
            /\ ret.kind = "result" =>
                  /\ first = 0
                  /\ ret.value = schemaSafeParse(schema, last.input[1])
            /\ ret.kind \in {"returned", "result", "thrown"}

\* C11 witness: of config1.json, malformed.json and missing.json, registered
\* in that order, parse read the first two and threw the SyntaxError of the
\* second; missing.json was not read and nothing was merged or validated.
C11_Witness ==
    /\ last.method = "parse"
    /\ Len(files) = 3
    /\ files[1].path = "config1.json" /\ files[2].path = "malformed.json"
    /\ files[3].path = "missing.json"
    /\ last.reads = 2
    /\ last.input = <<>>
    /\ ret.kind = "thrown" /\ ret.value.name = "SyntaxError"

\* The files of ShapeFiles whose decoded content is not a record, written out.
NonRecordPaths == {"scalar.json", "null.json", "array.json", "scalar.yml", "array.yml"}

hasNonRecord(entries) == \E i \in 1..Len(entries) : entries[i].path \in NonRecordPaths

\* C12: when the decode function of a registered file, the default one or a
\* custom one, yields a scalar, null or an array, the finalize fails: the
\* synchronous one throws, the promise of the asynchronous one is rejected
\* once its reads have called back, and no merged input is built.
C12_RecordShapedOrFail ==
    /\ last.method # "none" /\ hasNonRecord(files) =>
          /\ ret.kind = "thrown"
          /\ last.input = <<>>
    /\ async.method # "none" /\ ~inFlight(async) /\ hasNonRecord(async.files) =>
          /\ async.promise.state = "rejected"
          /\ async.input = <<>>

\* A merged input shows the environment and config1.json as they are now:
\* object.a is the value of OBJECT_A, and with the file registered string and
\* number are the ones the file holds.
showsWorld(input_) ==
    input_ # <<>> =>
        /\ readFromEnv /\ OBJECT_A \in DOMAIN env =>
              lookup(Rec(input_[1]), <<object, a>>) = Str(env[OBJECT_A])
        /\ files # <<>> =>
              /\ fs["config1.json"] # NoFile
              /\ lookup(Rec(input_[1]), <<number>>) = lookup(fs["config1.json"].value, <<number>>)
              /\ lookup(Rec(input_[1]), <<string>>) = lookup(fs["config1.json"].value, <<string>>)

\* C13: the builder calls only record their arguments, in call order, with
\* readEnv setting its flag once; they return the collector whatever the
\* files and the environment hold and leave both alone.  A finalize reads the
\* files and the environment as they are when it is called: after env or fs
\* has changed, the next finalize on the collector yields what the changed
\* env and fs give, and a file that has been removed makes it fail.
C13_FreshReads ==
    /\ [](/\ values = registered("value") /\ files = registered("file")
          /\ readFromEnv <=> (\E i \in 1..Len(calls) : calls[i] = EnvSource)
          /\ Cardinality({i \in 1..Len(calls) : calls[i] = EnvSource}) <= 1
          /\ last.method = "parse" => ret = parseOutcome(getInput)
          /\ last.method = "safeParse" => ret = safeParseOutcome(getInput)
          /\ showsWorld(last.input) /\ showsWorld(async.input)
          /\ last.method # "none" /\ files # <<>> /\ fs["config1.json"] = NoFile =>
                ret.kind = "thrown" /\ ret.value.name = "ENOENT"
          /\ async.method # "none" /\ async.files # <<>> /\ ~inFlight(async)
                 /\ fs["config1.json"] = NoFile =>
                async.promise.state = "rejected" /\ async.promise.value.name = "ENOENT")
    /\ [][calls' # calls \/ readFromEnv' # readFromEnv =>
              /\ ret' = This
              /\ env' = env /\ fs' = fs
              /\ \E k \in 1..MaxArgs :
                    /\ Len(calls') = Len(calls) + k
                    /\ SubSeq(calls', 1, Len(calls)) = calls]_vars

\* C13 witness: parse returned object.a and number as OBJECT_A and
\* config1.json held them, then OBJECT_A was set to qux and config1.json was
\* rewritten, and the next parse on the same collector returned the new ones.
C13_Witness ==
    /\ last.method = "parse"
    /\ before.kind = "returned"
    /\ lookup(Rec(before.value), <<object, a>>) = Str("a from env")
    /\ lookup(Rec(before.value), <<number>>) = Num(1)
    /\ env[OBJECT_A] = "qux"
    /\ fs["config1.json"].value = Rec(string :> Str("changed") @@ number :> Num(3))
    /\ ret.kind = "returned"
    /\ lookup(Rec(ret.value), <<object, a>>) = Str("qux")
    /\ lookup(Rec(ret.value), <<number>>) = Num(3)

\* The inputs of a deepMerge call but the last.
front(s) == SubSeq(s, 1, Len(s) - 1)

\* C14: when the reduce of deepMerge has taken all its inputs, its result is
\* the empty record for no input, the input itself for one input, and for
\* more inputs the merge of two records: the merge of all inputs but the
\* last, and the last input; so deepMerge(A, B, C) is
\* deepMerge(deepMerge(A, B), C).
C14_PairwiseLeftToRight ==
    index = Len(objects) =>
        /\ Len(objects) = 0 => output = EmptyRecord /\ deepMerge(<<>>) = EmptyRecord
        /\ Len(objects) = 1 => output = objects[1] /\ deepMerge(objects) = objects[1]
        /\ Len(objects) >= 2 =>
              /\ output = deepMerge(<<deepMerge(front(objects)), objects[Len(objects)]>>)
              /\ isMergeOf(output, deepMerge(front(objects)), objects[Len(objects)])
        /\ Len(objects) >= 3 =>
              output = deepMerge(<<deepMerge(<<deepMerge(front(front(objects))),
                                               objects[Len(objects) - 1]>>),
                                   objects[Len(objects)]>>)

\* C14 witness: [{a: {a: 1}}, {a: {b: 1}}, {b: 'b'}] has been merged to
\* {a: {a: 1, b: 1}, b: 'b'}.
C14_Witness ==
    /\ objects = <<(a :> Rec(a :> Num(1))), (a :> Rec(b :> Num(1))), (b :> Str("b"))>>
    /\ index = 3
    /\ output = (a :> Rec(a :> Num(1) @@ b :> Num(1)) @@ b :> Str("b"))

\* The value a reference stands for.
RECURSIVE deref(_, _)
deref(h, addr) ==
    [key \in DOMAIN h[addr] |->
        IF isRecordRef(h[addr][key]) THEN Rec(deref(h, h[addr][key].v))
        ELSE h[addr][key]]

\* C15: deepMerge writes only the accumulators it allocates: whatever calls
\* have been made, every record of a caller, and every record nested in one,
\* has the keys and values it had at the start, the accumulator is never one
\* of them, and the result is the merge of the values of the arguments.
C15_InputsNotMutated ==
    /\ \A addr \in 1..Len(InputHeap) : heap[addr] = InputHeap[addr]
    /\ output \notin 1..Len(InputHeap)
    /\ \A i \in 1..Len(values) : deref(heap, values[i]) = deref(InputHeap, values[i])
    /\ output # 0 /\ noCallUnderWay =>
          deref(heap, output) = deepMerge([i \in 1..Len(objects) |-> deref(heap, objects[i])])

\* C15 witness: {a: {a: 1}, b: 'b'} and {a: {b: 1}} were registered; the
\* values were merged and the result was merged again with both records:
\* the result holds at a a new record {a: 1, b: 1}, while the nested records
\* it referred to on the way still hold {a: 1} and {b: 1}.
C15_Witness ==
    /\ values = <<1, 4>>
    /\ objects = <<7, 4, 1>> /\ noCallUnderWay
    /\ heap[output][a] \notin {Ref(2), Ref(5)}
    /\ deref(heap, output) = (a :> Rec(a :> Num(1) @@ b :> Num(1)) @@ b :> Str("b"))
    /\ heap[2] = (a :> Num(1)) /\ heap[5] = (b :> Num(1))

\* The records the registered files of TierFiles hold, in registration order.
fileRecords(entries) == [i \in 1..Len(entries) |-> fs[entries[i].path].value.v]

\* The flat merge of the value records, the file records and the environment
\* record.
flatMerge(entries, envIn) == deepMerge(values \o fileRecords(entries) \o <<envIn>>)

\* The merge of the three merged tiers.
tieredMerge(entries, envIn) ==
    deepMerge(<<deepMerge(values), deepMerge(fileRecords(entries)), envIn>>)

\* The paths of TierFiles and of the value records that may hold a record.
TierPaths == {<<object>>}

\* At a path where the merged values hold a record, a file holds a scalar,
\* null or an array and a later file holds a record again.
shadowed(entries) ==
    \E path \in TierPaths, i \in 1..Len(entries), j \in 1..Len(entries) :
        /\ i < j
        /\ isRecord(lookup(Rec(deepMerge(values)), path))
        /\ isLeafValue(lookup(Rec(fileRecords(entries)[i]), path))
        /\ isRecord(lookup(Rec(fileRecords(entries)[j]), path))

\* C16 as stated: the merged input of a finalize is the flat left-to-right
\* merge of the value records, the file records and the environment record.
C16_FlatMerge ==
    /\ last.input # <<>> => last.input[1] = flatMerge(files, last.args[3])
    /\ async.input # <<>> => async.input[1] = flatMerge(async.files, async.args[3])

\* C16 amended: the merged input is the merge of the three merged tiers.  It
\* is the flat merge of all records unless, at a path where the merged
\* values hold a record, a file holds a scalar, null or an array and a later
\* file holds a record again; the values' record, which the flat merge would
\* drop there, is then merged with the later file's.
C16_TieredMerge ==
    /\ last.input # <<>> =>
          /\ last.input[1] = tieredMerge(files, last.args[3])
          /\ ~shadowed(files) => last.input[1] = flatMerge(files, last.args[3])
    /\ async.input # <<>> =>
          /\ async.input[1] = tieredMerge(async.files, async.args[3])
          /\ ~shadowed(async.files) => async.input[1] = flatMerge(async.files, async.args[3])

\* C16 witness: the value record holds object.a, flat.json sets object to a
\* string and config2.json, registered after it, holds object.c: the merged
\* input holds object.a and object.c, the flat merge only object.c.
C16_Witness ==
    /\ last.input # <<>>
    /\ ~readFromEnv
    /\ Len(values) = 1
    /\ Len(files) = 2 /\ files[1].path = "flat.json" /\ files[2].path = "config2.json"
    /\ shadowed(files)
    /\ lookup(Rec(last.input[1]), <<object>>) = Rec(a :> Str("a from value") @@ c :> Str("c"))
    /\ lookup(Rec(flatMerge(files, last.args[3])), <<object>>) = Rec(c :> Str("c"))

====
